---- MODULE Spec2Model ----
(***************************************************************************)
(* The Fiber + MongoDB user service of src/main.go: the "users" collection,*)
(* the five route handlers, the store calls they issue under a 5 s         *)
(* context, and main's start-up / shutdown sequence.                       *)
(***************************************************************************)
EXTENDS Integers, FiniteSets, TLC

\* ------------------------------------------------------------------ bounds
MaxOid == 2      \* ObjectIDs 1..MaxOid exist in a run
MaxConns == 2    \* connections the server serves at the same time
MaxAge == 1      \* ages 0..MaxAge

\* ------------------------------------------------------------- data model
\* primitive.ObjectID's zero value: `bson:"_id,omitempty"` leaves it out of
\* the inserted document, and the driver then generates the _id.
NilObjectID == 0

ObjectIDs == 1..MaxOid

\* "" is the zero value of User.Name (a body without "name" decodes to it).
Names == {"", "a", "b"}

\* The :name parameter of /user/:name is a non-empty path segment.
PathNames == Names \ {""}

Ages == 0..MaxAge

\* type User struct { ID; Name; Age }
User == [id : ObjectIDs, name : Names, age : Ages]

\* What c.BodyParser(&user) leaves: an error (ok = FALSE), or a User whose
\* ID is whatever "_id" the client sent (NilObjectID when it sent none).
BadBody == [ok |-> FALSE, id |-> NilObjectID, name |-> "", age |-> 0]

\* The "_id" a client sends: none, or an ObjectID of its choice (here one
\* that the driver comes to generate too).
BodyOids == {NilObjectID, MaxOid}

Bodies ==
    {BadBody} \cup [ok : {TRUE}, id : BodyOids, name : Names, age : Ages]

\* PUT reads only Name and Age of the parsed body (the $set document).
UpdateBodies == {b \in Bodies : b.id = NilObjectID}

Conns == 1..MaxConns

VARIABLES
    coll,      \* the documents of fiberdb.users
    nextOid,   \* the next ObjectID the driver generates (they never repeat)
    conn,      \* per connection: the request it is serving
    resp,      \* the HTTP response the last step wrote (NoResp: none)
    pc,        \* where main() is
    listener,  \* the goroutine running app.Listen
    dbOpen     \* the shared mongo client is connected

vars == <<coll, nextOid, conn, resp, pc, listener, dbOpen>>

IdleConn ==
    [st |-> "idle", route |-> "none", name |-> "", body |-> BadBody]

\* A response: the connection it is written to, the request it answers,
\* the store calls the handler issued for it and whether the call returned
\* an error, the status, and what the JSON body carries ("id" of the 201,
\* the array of GET /users).
NoResp ==
    [conn |-> 0, route |-> "none", name |-> "", body |-> BadBody,
     calls |-> 0, err |-> FALSE, status |-> 0, oid |-> NilObjectID,
     users |-> {}]

\* The process is alive: main has not returned and log.Fatal has not run.
Running == pc \notin {"exit0", "exit1"}

\* --------------------------------------------------------- the store calls
\* Each store call is one atomic operation of the store.  An outcome is the
\* collection it leaves, whether the driver returns an error, and the count
\* the result carries (MatchedCount / DeletedCount).

\* InsertOne as it would be if the document were built without the age.
InsertOneZeroAge(c, doc) ==
    IF \E d \in c : d.id = doc.id
    THEN {[coll |-> c, err |-> TRUE, n |-> 0]}
    ELSE {[coll |-> c \cup {[doc EXCEPT !.age = 0]}, err |-> FALSE, n |-> 1]}

\* userCollection.InsertOne(ctx, user): a duplicate _id is a write error.
InsertOne(c, doc) ==
    IF \E d \in c : d.id = doc.id
    THEN {[coll |-> c, err |-> TRUE, n |-> 0]}
    ELSE {[coll |-> c \cup {doc}, err |-> FALSE, n |-> 1]}

\* UpdateOne as it would be if the handler called UpdateMany.
UpdateMany(c, name, body) ==
    LET matched == {d \in c : d.name = name} IN
    IF matched = {}
    THEN {[coll |-> c, err |-> FALSE, n |-> 0]}
    ELSE {[coll |-> (c \ matched) \cup
                    {[id |-> d.id, name |-> body.name, age |-> body.age] :
                       d \in matched},
           err |-> FALSE, n |-> 1]}

\* userCollection.UpdateOne(ctx, {"name": name}, {"$set": {name, age}}):
\* one matching document, chosen by the store, gets the two fields.
UpdateOne(c, name, body) ==
    LET matched == {d \in c : d.name = name} IN
    IF matched = {}
    THEN {[coll |-> c, err |-> FALSE, n |-> 0]}
    ELSE {[coll |-> (c \ {d}) \cup
                    {[id |-> d.id, name |-> body.name, age |-> body.age]},
           err |-> FALSE, n |-> 1] : d \in matched}

\* userCollection.DeleteOne(ctx, {"name": name})
DeleteOne(c, name) ==
    LET matched == {d \in c : d.name = name} IN
    IF matched = {}
    THEN {[coll |-> c, err |-> FALSE, n |-> 0]}
    ELSE {[coll |-> c \ {d}, err |-> FALSE, n |-> 1] : d \in matched}

\* userCollection.Find(ctx, bson.M{}) and cursor.All: every document.
Find(c) == {[coll |-> c, err |-> FALSE, n |-> 0]}

\* The _id of the document InsertOne sends for a parsed user: the user's
\* own when it has one (omitempty keeps it), else the one the driver
\* generates, oid.
InsertedID(body, oid) == IF body.id = NilObjectID THEN oid ELSE body.id

\* The outcomes of the store call connection record q is waiting for, oid
\* being the next ObjectID of the driver.
StoreOutcomes(c, q, oid) ==
    CASE q.route = "create" ->
           InsertOne(c, [id |-> InsertedID(q.body, oid),
                         name |-> q.body.name, age |-> q.body.age])
      [] q.route = "update" -> UpdateOne(c, q.name, q.body)
      [] q.route = "delete" -> DeleteOne(c, q.name)
      [] OTHER -> Find(c)

\* ------------------------------------------------- result -> HTTP status
PostStatus(o) == IF o.err THEN 500 ELSE 201

\* PutStatus as it would be without the MatchedCount test.
PutStatusIgnoreMatched(o) == IF o.err THEN 500 ELSE 200

PutStatus(o) == IF o.err THEN 500 ELSE IF o.n = 0 THEN 404 ELSE 200

DeleteStatus(o) == IF o.err THEN 500 ELSE IF o.n = 0 THEN 404 ELSE 200

GetUsersStatus(o) == IF o.err THEN 500 ELSE 200

HandlerStatus(q, o) ==
    CASE q.route = "create" -> PostStatus(o)
      [] q.route = "update" -> PutStatus(o)
      [] q.route = "delete" -> DeleteStatus(o)
      [] OTHER -> GetUsersStatus(o)

\* PostReject as it would be without the `user.Name == ""` test.
PostRejectParseOnly(body) == IF ~body.ok THEN 400 ELSE 0

\* PutReject as it would be if the BodyParser error were ignored.
PutRejectNothing(body) == 0

\* The checks a handler makes before it calls the store: 0 to go on, or the
\* status it returns at once.
PostReject(body) ==
    IF ~body.ok THEN 400 ELSE IF body.name = "" THEN 400 ELSE 0

PutReject(body) == IF ~body.ok THEN 400 ELSE 0

\* ------------------------------------------------------------------- Init
\* connectMongoDB has returned (a failure there is log.Fatal before any of
\* this exists), the routes are registered, main blocks on <-quit and the
\* goroutine that calls app.Listen has been started but has not run.
Init ==
    /\ coll = {}
    /\ nextOid = 1
    /\ conn = [r \in Conns |-> IdleConn]
    /\ resp = NoResp
    /\ pc = "serve"
    /\ listener = "init"
    /\ dbOpen = TRUE

\* ------------------------------------------------- the listening goroutine
\* app.Listen(":" + port) binds and serves.
Listen ==
    /\ Running
    /\ listener = "init"
    /\ listener' = "open"
    /\ resp' = NoResp
    /\ UNCHANGED <<coll, nextOid, conn, pc, dbOpen>>

\* app.Listen returns an error: log.Fatal, exit status 1.
ListenFail ==
    /\ Running
    /\ listener = "init"
    /\ listener' = "failed"
    /\ pc' = "exit1"
    /\ resp' = NoResp
    /\ UNCHANGED <<coll, nextOid, conn, dbOpen>>

\* ------------------------------------------------------------ connections
\* A client connects; its request has not arrived yet.  fiber.Config sets
\* no ReadTimeout, so the connection may stay like this.
Connect(r) ==
    /\ Running
    /\ listener = "open"
    /\ conn[r].st = "idle"
    /\ conn' = [conn EXCEPT ![r].st = "reading"]
    /\ resp' = NoResp
    /\ UNCHANGED <<coll, nextOid, pc, listener, dbOpen>>

\* The handler returns a response without having called the store.
Respond(r, route, name, body, status) ==
    /\ conn' = [conn EXCEPT ![r] = IdleConn]
    /\ resp' = [NoResp EXCEPT !.conn = r, !.route = route, !.name = name,
                              !.body = body, !.status = status]

\* The handler issues its store call and waits for it.
Call(r, route, name, body) ==
    /\ conn' = [conn EXCEPT ![r] =
           [st |-> "call", route |-> route, name |-> name, body |-> body]]
    /\ resp' = NoResp

\* The inserts in flight whose _id the driver generates.
PendingOids ==
    Cardinality({r \in Conns : /\ conn[r].st = "call"
                               /\ conn[r].route = "create"
                               /\ conn[r].body.id = NilObjectID})

\* Connection r's call is such an insert.
TakesOid(r) == conn[r].route = "create" /\ conn[r].body.id = NilObjectID

\* The store call of connection r has returned outcome o: the handler maps
\* it to its response.
Return(r, o) ==
    /\ conn' = [conn EXCEPT ![r] = IdleConn]
    /\ resp' = [conn |-> r, route |-> conn[r].route, name |-> conn[r].name,
                body |-> conn[r].body, calls |-> 1, err |-> o.err,
                status |-> HandlerStatus(conn[r], o),
                oid |-> IF conn[r].route = "create" /\ ~o.err
                        THEN InsertedID(conn[r].body, nextOid)
                        ELSE NilObjectID,
                users |-> IF conn[r].route = "list" /\ ~o.err
                          THEN o.coll ELSE {}]

\* GET /
Home(r) ==
    /\ Running
    /\ conn[r].st = "reading"
    /\ Respond(r, "home", "", BadBody, 200)
    /\ UNCHANGED <<coll, nextOid, pc, listener, dbOpen>>

\* GET /users, up to the Find call
GetUsers(r) ==
    /\ Running
    /\ conn[r].st = "reading"
    /\ Call(r, "list", "", BadBody)
    /\ UNCHANGED <<coll, nextOid, pc, listener, dbOpen>>

\* POST /user, up to the InsertOne call.  A run has ObjectIDs for MaxOid
\* inserts that leave the _id to the driver.
PostUser(r, body) ==
    /\ Running
    /\ conn[r].st = "reading"
    /\ IF PostReject(body) # 0
       THEN Respond(r, "create", "", body, PostReject(body))
       ELSE /\ body.id = NilObjectID => nextOid + PendingOids <= MaxOid
            /\ Call(r, "create", "", body)
    /\ UNCHANGED <<coll, nextOid, pc, listener, dbOpen>>

\* PUT /user/:name, up to the UpdateOne call
PutUser(r, name, body) ==
    /\ Running
    /\ conn[r].st = "reading"
    /\ IF PutReject(body) # 0
       THEN Respond(r, "update", name, body, PutReject(body))
       ELSE Call(r, "update", name, body)
    /\ UNCHANGED <<coll, nextOid, pc, listener, dbOpen>>

\* DELETE /user/:name, up to the DeleteOne call
DeleteUser(r, name) ==
    /\ Running
    /\ conn[r].st = "reading"
    /\ Call(r, "delete", name, BadBody)
    /\ UNCHANGED <<coll, nextOid, pc, listener, dbOpen>>

\* The store executes the call and the handler maps the result to its
\* response.  An insert without _id uses up the driver's next ObjectID.
StoreReply(r) ==
    /\ Running
    /\ conn[r].st = "call"
    /\ dbOpen
    /\ \E o \in StoreOutcomes(coll, conn[r], nextOid) :
         /\ coll' = o.coll
         /\ Return(r, o)
    /\ nextOid' = IF TakesOid(r) THEN nextOid + 1 ELSE nextOid
    /\ UNCHANGED <<pc, listener, dbOpen>>

\* The call returns an error without the store having done anything (the
\* store is unreachable, or the client has been disconnected).
StoreError(r) ==
    /\ Running
    /\ conn[r].st = "call"
    /\ Return(r, [coll |-> coll, err |-> TRUE, n |-> 0])
    /\ nextOid' = IF TakesOid(r) THEN nextOid + 1 ELSE nextOid
    /\ UNCHANGED <<coll, pc, listener, dbOpen>>

\* The 5 s context expires first: the call returns the context's error.
\* The store may or may not have executed the operation by then.
Timeout(r) ==
    /\ Running
    /\ conn[r].st = "call"
    /\ \/ UNCHANGED coll
       \/ /\ dbOpen
          /\ \E o \in StoreOutcomes(coll, conn[r], nextOid) : coll' = o.coll
    /\ Return(r, [coll |-> coll, err |-> TRUE, n |-> 0])
    /\ nextOid' = IF TakesOid(r) THEN nextOid + 1 ELSE nextOid
    /\ UNCHANGED <<pc, listener, dbOpen>>

\* ------------------------------------------------------------------ main
\* main blocks on <-quit ("serve") until SIGINT or SIGTERM arrives, and then
\* calls app.Shutdown().  The three actions that leave "serve" are that
\* call's outcomes.

\* app.Shutdown() before the goroutine has bound the listener: the server
\* has no listener to close and returns nil at once.
ShutdownNotListening ==
    /\ pc = "serve"
    /\ listener = "init"
    /\ pc' = "disconnect"
    /\ resp' = NoResp
    /\ UNCHANGED <<coll, nextOid, conn, listener, dbOpen>>

\* app.Shutdown() closes the listener, then waits for the connections.
ShutdownClose ==
    /\ pc = "serve"
    /\ listener = "open"
    /\ listener' = "closed"
    /\ pc' = "drain"
    /\ resp' = NoResp
    /\ UNCHANGED <<coll, nextOid, conn, dbOpen>>

\* app.Shutdown() returns once no connection is open.  It is called without
\* a timeout.
ShutdownDrained ==
    /\ pc = "drain"
    /\ \A r \in Conns : conn[r].st = "idle"
    /\ pc' = "disconnect"
    /\ resp' = NoResp
    /\ UNCHANGED <<coll, nextOid, conn, listener, dbOpen>>

\* app.Shutdown() returns an error: it is logged and main goes on.
ShutdownError ==
    /\ pc = "serve"
    /\ listener = "open"
    /\ pc' = "disconnect"
    /\ resp' = NoResp
    /\ UNCHANGED <<coll, nextOid, conn, listener, dbOpen>>

\* client.Disconnect(ctx) under its 5 s context; its error is only logged.
Disconnect ==
    /\ pc = "disconnect"
    /\ dbOpen' = FALSE
    /\ pc' = "return"
    /\ resp' = NoResp
    /\ UNCHANGED <<coll, nextOid, conn, listener>>

\* main returns: the process ends with status 0 and takes every goroutine
\* and connection with it.
Exit ==
    /\ pc = "return"
    /\ pc' = "exit0"
    /\ conn' = [r \in Conns |-> IdleConn]
    /\ listener' = "closed"
    /\ resp' = NoResp
    /\ UNCHANGED <<coll, nextOid, dbOpen>>

Next ==
    \/ Listen
    \/ ListenFail
    \/ ShutdownNotListening
    \/ ShutdownClose
    \/ ShutdownDrained
    \/ ShutdownError
    \/ Disconnect
    \/ Exit
    \/ \E r \in Conns : Connect(r)
    \/ \E r \in Conns : Home(r)
    \/ \E r \in Conns : GetUsers(r)
    \/ \E r \in Conns, body \in Bodies : PostUser(r, body)
    \/ \E r \in Conns, name \in PathNames, body \in UpdateBodies :
          PutUser(r, name, body)
    \/ \E r \in Conns, name \in PathNames : DeleteUser(r, name)
    \/ \E r \in Conns : StoreReply(r)
    \/ \E r \in Conns : StoreError(r)
    \/ \E r \in Conns : Timeout(r)

Spec == Init /\ [][Next]_vars

\* The go runtime schedules every runnable goroutine, and a context's
\* deadline passes: the listening goroutine, main's steps after the signal
\* and each pending store call go on.  What the outside does (connect, send
\* a request, send the signal) is under no such obligation.
FairSpec ==
    /\ Spec
    /\ WF_vars(Listen \/ ListenFail)
    /\ WF_vars(ShutdownDrained)
    /\ WF_vars(Disconnect)
    /\ WF_vars(Exit)
    /\ \A r \in Conns : WF_vars(StoreReply(r) \/ StoreError(r) \/ Timeout(r))

\* ------------------------------------------------------------- sanity
\* The shape of the state; _id is unique in the collection.
TypeOK ==
    /\ coll \subseteq User
    /\ \A d, e \in coll : d.id = e.id => d = e
    /\ nextOid \in 1..(MaxOid + 1)
    /\ \A r \in Conns :
         /\ conn[r].st \in {"idle", "reading", "call"}
         /\ conn[r].st = "call" =>
               conn[r].route \in {"list", "create", "update", "delete"}
         /\ conn[r].st # "call" => conn[r] = [IdleConn EXCEPT !.st = conn[r].st]
    /\ resp.conn \in {0} \cup Conns
    /\ resp.status \in {0, 200, 201, 400, 404, 500}
    /\ resp.calls \in {0, 1}
    /\ pc \in {"serve", "drain", "disconnect", "return", "exit0", "exit1"}
    /\ listener \in {"init", "open", "closed", "failed"}
    /\ dbOpen \in BOOLEAN

\* ----------------------------------------------------------------- claims
\* The documents of c named n.
Named(c, n) == {d \in c : d.name = n}

\* This step writes the response of the store call connection r waited for.
Returns(r) == conn[r].st = "call" /\ resp'.conn = r

\* C1: a POST /user whose body parses with a non-empty name and whose
\* insert succeeds is answered 201 and adds exactly one document, with the
\* submitted name and age and an id that the store assigned (it is not the
\* request's) and that no document had before; a successful GET /users
\* returns the collection, and a document leaves the collection or changes
\* only by a PUT or a DELETE.
C1_PostAddsDocWithStoreId ==
    [][\A r \in Conns :
         /\ (Returns(r) /\ conn[r].route = "create" /\ ~resp'.err)
              => /\ resp'.status = 201
                 /\ \E d \in coll' \ coll :
                      /\ coll' = coll \cup {d}
                      /\ d.name = conn[r].body.name
                      /\ d.age = conn[r].body.age
                      /\ \A e \in coll : e.id # d.id
                      /\ d.id # conn[r].body.id
                      /\ resp'.oid = d.id
         /\ (Returns(r) /\ conn[r].route = "list" /\ ~resp'.err)
              => resp'.status = 200 /\ resp'.users = coll
         /\ (conn[r].st = "call" /\ conn'[r].st = "idle" /\ Running'
             /\ conn[r].route \in {"create", "list"})
              => coll \subseteq coll'
      ]_vars

\* C2: a POST /user whose name is empty or missing is answered 400 by the
\* handler's first step, before any store call, and the collection is left
\* as it was.
C2_EmptyNameIs400 ==
    [][\A r \in Conns :
         (resp'.conn = r /\ resp'.route = "create" /\ resp'.body.name = "")
           => /\ resp'.status = 400
              /\ conn[r].st = "reading"
              /\ resp'.calls = 0
              /\ coll' = coll
      ]_vars

\* A 400 for a parsed body without a name, carrying another field, while
\* the collection holds documents.
C2_Witness ==
    /\ resp.conn # 0
    /\ resp.route = "create"
    /\ resp.body.ok /\ resp.body.name = "" /\ resp.body.age # 0
    /\ resp.status = 400
    /\ coll # {}

\* C3 as stated: a PUT (parsed body) or DELETE whose path name matches no
\* document is always answered 404 and leaves the collection unchanged.
C3_NoMatchAlways404 ==
    [][\A r \in Conns :
         (Returns(r) /\ conn[r].route \in {"update", "delete"}
          /\ Named(coll, conn[r].name) = {})
           => resp'.status = 404 /\ coll' = coll
      ]_vars

\* C3 amended: with no matching document the collection is unchanged, and
\* the answer is 404 when the store call returns without error and 500 when
\* it fails or times out.
C3_NoMatch404UnlessStoreFails ==
    [][\A r \in Conns :
         (Returns(r) /\ conn[r].route \in {"update", "delete"}
          /\ Named(coll, conn[r].name) = {})
           => /\ resp'.status = (IF resp'.err THEN 500 ELSE 404)
              /\ coll' = coll
      ]_vars

\* A 404 from PUT or DELETE on a collection that holds other documents.
C3_Witness ==
    /\ resp.conn # 0
    /\ resp.route \in {"update", "delete"}
    /\ resp.status = 404
    /\ coll # {}
    /\ Named(coll, resp.name) = {}

\* C4: a POST or PUT whose body cannot be parsed is answered 400 by the
\* handler's first step, before any store call, and the collection is left
\* as it was.
C4_UnparsableIs400 ==
    [][\A r \in Conns :
         (resp'.conn = r /\ resp'.route \in {"create", "update"}
          /\ ~resp'.body.ok)
           => /\ resp'.status = 400
              /\ conn[r].st = "reading"
              /\ resp'.calls = 0
              /\ coll' = coll
      ]_vars

\* A 400 for an unparsable PUT whose path name matches a document.
C4_Witness ==
    /\ resp.conn # 0
    /\ resp.route = "update"
    /\ ~resp.body.ok
    /\ resp.status = 400
    /\ Named(coll, resp.name) # {}

\* The steps of the round trip on name n, the store answering:
\* POST {n, a}, n absent: 201 and exactly one new document, named n, age a.
RoundTripPost(r) ==
    (Returns(r) \/ (conn[r].st = "reading" /\ resp'.conn = r))
    /\ resp'.route = "create" /\ resp'.body.ok
    /\ resp'.body.id = NilObjectID /\ ~resp'.err
    /\ Named(coll, resp'.body.name) = {}
    => /\ resp'.status = 201
       /\ \E d \in coll' \ coll :
            /\ coll' = coll \cup {d}
            /\ d.name = resp'.body.name /\ d.age = resp'.body.age
            /\ resp'.oid = d.id

\* GET /users: 200 and the documents of the collection, which it leaves.
RoundTripGet(r) ==
    Returns(r) /\ conn[r].route = "list" /\ ~resp'.err
    => resp'.status = 200 /\ resp'.users = coll /\ coll' = coll

\* PUT /user/n {n, b}, one document named n: 200, that document has age b
\* and its id, the others are unchanged.
RoundTripPut(r) ==
    Returns(r) /\ conn[r].route = "update" /\ ~resp'.err
    /\ conn[r].body.name = conn[r].name
    /\ Cardinality(Named(coll, conn[r].name)) = 1
    => /\ resp'.status = 200
       /\ \E d \in Named(coll, conn[r].name) :
            coll' = (coll \ {d}) \cup
                    {[id |-> d.id, name |-> d.name, age |-> conn[r].body.age]}

\* DELETE /user/n, one document named n: 200, no document named n is left,
\* the others are unchanged.
RoundTripDelete(r) ==
    Returns(r) /\ conn[r].route = "delete" /\ ~resp'.err
    /\ Cardinality(Named(coll, conn[r].name)) = 1
    => /\ resp'.status = 200
       /\ coll' = coll \ Named(coll, conn[r].name)
       /\ Named(coll', conn[r].name) = {}

C6_CloseAfterDrain ==
    (Running /\ ~dbOpen) =>
        /\ listener # "open"
        /\ \A r \in Conns : conn[r].st # "call"

\* C7: once the termination signal is received the process eventually
\* exits with status 0.
C7_ShutdownExits == (pc \in {"drain", "disconnect"}) ~> (pc = "exit0")

\* C8: every request whose handler has issued its store call eventually
\* receives its response.
C8_EveryCallAnswered ==
    \A r \in Conns : (conn[r].st = "call") ~> (resp.conn = r)

\* C9: with several documents of the path name, a successful PUT sets the
\* name and age of exactly one of them, which keeps its id, and a successful
\* DELETE removes exactly one of them; every other document is unchanged and
\* the number of documents changes by 0 and by -1.
C9_OneOfSeveral ==
    [][\A r \in Conns :
         /\ (Returns(r) /\ conn[r].route = "update" /\ resp'.status = 200
             /\ Cardinality(Named(coll, conn[r].name)) >= 2)
              => /\ \E d \in Named(coll, conn[r].name) :
                      coll' = (coll \ {d}) \cup
                              {[id |-> d.id, name |-> conn[r].body.name,
                                age |-> conn[r].body.age]}
                 /\ Cardinality(coll') = Cardinality(coll)
         /\ (Returns(r) /\ conn[r].route = "delete" /\ resp'.status = 200
             /\ Cardinality(Named(coll, conn[r].name)) >= 2)
              => /\ \E d \in Named(coll, conn[r].name) : coll' = coll \ {d}
                 /\ Cardinality(coll') = Cardinality(coll) - 1
      ]_vars

\* A successful PUT that renamed one of several documents of the path name:
\* another document of that name is still there.
C9_Witness ==
    /\ resp.conn # 0
    /\ resp.route = "update"
    /\ resp.status = 200
    /\ resp.body.name # resp.name
    /\ Named(coll, resp.name) # {}
    /\ Named(coll, resp.body.name) # {}

\* C10: every document of the collection has a non-empty name.
C10_NameNeverEmpty == \A d \in coll : d.name # ""

====
